---- MODULE Spec2Model ----
(***************************************************************************)
(* Model of i18n-helpers/src/bin/mdbook-gettext.rs: translate,             *)
(* translate_book and preprocess.                                          *)
(*                                                                         *)
(* A string is a sequence of one-character strings.  A text unit is a      *)
(* string over Alphabet; a catalog is a set of messages.                   *)
(***************************************************************************)
EXTENDS Integers, Sequences, FiniteSets, TLC

NL == "\n"

\* ---- bounds ----------------------------------------------------------
MaxLen == 6
MaxEntries == 1
MaxItems == 2

Alphabet == {"a", "b", NL}

SeqsUpTo(S, n) == UNION {[1..k -> S] : k \in 0..n}

Texts == SeqsUpTo(Alphabet, MaxLen)

\* ---- strings (Rust str methods used by the program) -------------------

\* str::ends_with(c)
ends_with(s, c) == Len(s) > 0 /\ s[Len(s)] = c

\* str::is_empty()
is_empty(s) == Len(s) = 0

\* str::lines().count(): every "\n" ends a line; a non-empty rest after the
\* last "\n" is one more line.
lines_count(s) ==
    Cardinality({i \in 1..Len(s) : s[i] = NL})
        + (IF Len(s) > 0 /\ s[Len(s)] # NL THEN 1 ELSE 0)

\* ---- the paragraph segmenter (i18n_helpers::extract_paragraphs) -------
\* The library source is not part of the sources at hand; the segmenter is
\* modelled from its contract: a paragraph is a maximal run of non-blank
\* lines, start_line is the 1-based number of its first line, blank lines
\* are never yielded.  The contract leaves open whether the text of a
\* paragraph keeps the terminator of its last line ("newline-terminated
\* between lines but not necessarily at the end"); keepEol ranges over both.

\* last position of the paragraph whose first line starts at p: the first
\* "\n" that is followed by another "\n" or by the end of the text.
ParagraphEnd(s, p) ==
    LET ends == {q \in p..Len(s) : s[q] = NL /\ (q = Len(s) \/ s[q + 1] = NL)}
    IN  IF ends = {} THEN Len(s)
        ELSE CHOOSE q \in ends : \A r \in ends : q <= r

ParagraphText(s, p, q, keep) ==
    IF keep \/ s[q] # NL THEN SubSeq(s, p, q) ELSE SubSeq(s, p, q - 1)

RECURSIVE ParagraphsFrom(_, _, _, _)
ParagraphsFrom(s, p, line, keep) ==
    IF p > Len(s) THEN <<>>
    ELSE IF s[p] = NL THEN ParagraphsFrom(s, p + 1, line + 1, keep)
    ELSE LET q == ParagraphEnd(s, p)
         IN  <<[lineno |-> line, paragraph |-> ParagraphText(s, p, q, keep)]>>
                 \o ParagraphsFrom(s, q + 1, line + lines_count(SubSeq(s, p, q)), keep)

extract_paragraphs(s, keep) == ParagraphsFrom(s, 1, 1, keep)

\* ---- the catalog (polib::catalog::Catalog) -----------------------------
\* A message has a msgid and a msgstr; get_msgstr() fails on a plural
\* message, which translate turns into "no translation" with .ok().
Sources == {<<"a">>, <<"a", NL>>}
Targets == {<<>>, <<"B">>, <<"B", NL>>, <<"B", NL, "B">>}

Messages ==
    {[msgid |-> s, msgstr |-> t, plural |-> FALSE] : s \in Sources, t \in Targets}
        \cup {[msgid |-> s, msgstr |-> <<>>, plural |-> TRUE] : s \in Sources}

Catalogs ==
    {c \in SUBSET Messages :
        /\ Cardinality(c) <= MaxEntries
        /\ \A m1, m2 \in c : m1.msgid = m2.msgid => m1 = m2}

\* Catalog::find_message(msgid): the message with exactly that msgid
HasMessage(cat, msgid) == \E m \in cat : m.msgid = msgid
find_message(cat, msgid) == CHOOSE m \in cat : m.msgid = msgid

\* ---- translate ---------------------------------------------------------

\* catalog.find_message(paragraph).and_then(|msg| msg.get_msgstr().ok())
\*     .filter(|msgstr| !msgstr.is_empty()).unwrap_or(paragraph)
translated_mut(cat, paragraph) ==
    IF HasMessage(cat, paragraph) /\ ~find_message(cat, paragraph).plural
    THEN find_message(cat, paragraph).msgstr
    ELSE paragraph

translated(cat, paragraph) ==
    IF /\ HasMessage(cat, paragraph)
       /\ ~find_message(cat, paragraph).plural
       /\ ~is_empty(find_message(cat, paragraph).msgstr)
    THEN find_message(cat, paragraph).msgstr
    ELSE paragraph

\* current_lineno += paragraph.lines().count()
AdvanceCursor_mut(cur, paragraph, segment) == cur + lines_count(segment)

AdvanceCursor(cur, paragraph, segment) == cur + lines_count(paragraph)

\* if text.ends_with('\n') { output.push('\n') }
PushTrailingNewline(out, txt) ==
    IF ends_with(txt, NL) THEN Append(out, NL) ELSE out

\* while current_lineno < lineno { output.push('\n'); current_lineno += 1 }
RECURSIVE FillBlankLines(_, _, _)
FillBlankLines(out, cur, lineno) ==
    IF cur < lineno THEN FillBlankLines(Append(out, NL), cur + 1, lineno) ELSE out

Max(a, b) == IF a < b THEN b ELSE a

\* the for loop of translate over the paragraphs still to come
RECURSIVE TranslateLoop(_, _, _, _)
TranslateLoop(paras, cat, out, cur) ==
    IF paras = <<>> THEN out
    ELSE LET p == Head(paras)
             seg == translated(cat, p.paragraph)
         IN  TranslateLoop(Tail(paras), cat,
                           FillBlankLines(out, cur, p.lineno) \o seg,
                           AdvanceCursor(Max(cur, p.lineno), p.paragraph, seg))

\* translate(text, catalog) as a function of its arguments
Translate(txt, cat, keep) ==
    PushTrailingNewline(TranslateLoop(extract_paragraphs(txt, keep), cat, <<>>, 1), txt)


\* ---- state ---------------------------------------------------------------
VARIABLES
    \* one call of translate
    text,            \* the text unit (argument)
    catalog,         \* the catalog (argument)
    keepEol,         \* whether the segmenter keeps a paragraph's last "\n"
    paragraphs,      \* what the extract_paragraphs iterator has yet to yield
    output,          \* the output buffer
    current_lineno,  \* the line cursor
    filled,          \* "\n" pushed by the while loop since the last paragraph
    appended,        \* per paragraph handled: start line, text, pushed segment, blank lines pushed before it
    pc,              \* "loop" | "done"
    \* one run of preprocess
    stdinOk,         \* CmdPreprocessor::parse_input succeeds
    version,         \* ctx.mdbook_version: "unparseable" | "mismatch" | "match"
    cfg,             \* what the configuration holds for preprocessor.gettext
    poCatalog,       \* the catalog the PO file parses to
    loaded,          \* the catalog translate_book holds once po_file::parse returned
    book0,           \* the book as read from stdin
    book,            \* the book being translated
    visited,         \* items for_each_mut has called the closure on
    warned,          \* the version warning was printed
    stdout,          \* books written to stdout
    error,           \* the error preprocess returned, "" if none
    bpc              \* "start" | "config" | "po" | "items" | "done" | "err"

tvars == <<text, catalog, keepEol, paragraphs, output, current_lineno, filled, appended, pc>>
bvars == <<stdinOk, version, cfg, poCatalog, loaded, book0, book, visited, warned, stdout, error, bpc>>
vars == <<tvars, bvars>>

\* ---- translate, statement by statement -------------------------------------

BookIdle ==
    /\ stdinOk = TRUE /\ version = "match" /\ cfg = "ok" /\ poCatalog = {} /\ loaded = {}
    /\ book0 = <<>> /\ book = <<>> /\ visited = {} /\ warned = FALSE
    /\ stdout = <<>> /\ error = "" /\ bpc = "done"

\* let mut output = String::with_capacity(text.len()); let mut current_lineno = 1;
Init ==
    /\ text \in Texts
    /\ catalog \in Catalogs
    /\ keepEol \in BOOLEAN
    /\ paragraphs = extract_paragraphs(text, keepEol)
    /\ output = <<>>
    /\ current_lineno = 1
    /\ filled = 0
    /\ appended = <<>>
    /\ pc = "loop"
    /\ BookIdle

\* one turn of: while current_lineno < lineno { output.push('\n'); current_lineno += 1; }
FillBlankLine ==
    /\ pc = "loop"
    /\ paragraphs # <<>>
    /\ current_lineno < Head(paragraphs).lineno
    /\ output' = Append(output, NL)
    /\ current_lineno' = current_lineno + 1
    /\ filled' = filled + 1
    /\ UNCHANGED <<text, catalog, keepEol, paragraphs, appended, pc>>
    /\ UNCHANGED bvars

\* the rest of the loop body: advance the cursor, look the paragraph up, push
AppendParagraph ==
    /\ pc = "loop"
    /\ paragraphs # <<>>
    /\ ~(current_lineno < Head(paragraphs).lineno)
    /\ LET p == Head(paragraphs)
           seg == translated(catalog, p.paragraph)
       IN  /\ current_lineno' = AdvanceCursor(current_lineno, p.paragraph, seg)
           /\ output' = output \o seg
           /\ appended' = Append(appended,
                  [lineno |-> p.lineno, paragraph |-> p.paragraph,
                   segment |-> seg, blanks |-> filled])
    /\ paragraphs' = Tail(paragraphs)
    /\ filled' = 0
    /\ UNCHANGED <<text, catalog, keepEol, pc>>
    /\ UNCHANGED bvars

\* after the loop: if text.ends_with('\n') { output.push('\n'); }  output
TrailingNewline ==
    /\ pc = "loop"
    /\ paragraphs = <<>>
    /\ output' = PushTrailingNewline(output, text)
    /\ pc' = "done"
    /\ UNCHANGED <<text, catalog, keepEol, paragraphs, current_lineno, filled, appended>>
    /\ UNCHANGED bvars

Next == FillBlankLine \/ AppendParagraph \/ TrailingNewline

Spec == Init /\ [][Next]_vars

\* the statement-by-statement run returns what the function Translate computes
TranslateAgrees == pc = "done" => output = Translate(text, catalog, keepEol)


\* ---- what the properties of translate speak about ---------------------------

Last(q) == q[Len(q)]

\* no message of the catalog has a paragraph of the text as its msgid
NoMatch == \A i \in 1..Len(extract_paragraphs(text, keepEol)) :
               ~HasMessage(catalog, extract_paragraphs(text, keepEol)[i].paragraph)

\* s without its trailing "\n"s
RECURSIVE TrimEnd(_)
TrimEnd(s) == IF ends_with(s, NL) THEN TrimEnd(SubSeq(s, 1, Len(s) - 1)) ELSE s

\* s without its leading "\n"s
RECURSIVE TrimStart(_)
TrimStart(s) == IF Len(s) > 0 /\ s[1] = NL THEN TrimStart(Tail(s)) ELSE s

\* line k of s exists and is blank
BlankLine(s, k) ==
    \E p \in 1..Len(s) :
        /\ s[p] = NL
        /\ (p = 1 \/ s[p - 1] = NL)
        /\ Cardinality({i \in 1..(p - 1) : s[i] = NL}) = k - 1

\* the blank lines of s that directly precede line L
BlankLinesBefore(s, L) ==
    Cardinality({k \in 1..(L - 1) : \A j \in k..(L - 1) : BlankLine(s, j)})

\* blank lines before the first paragraph of s (all lines, if s is blank)
LeadingBlank(s) == Len(s) - Len(TrimStart(s))

\* blank lines after the last paragraph of s (all lines, if s is blank):
\* of the trailing "\n"s the first one ends the last paragraph's last line
TrailingBlank(s) ==
    IF TrimEnd(s) = <<>> THEN Len(s)
    ELSE IF ends_with(s, NL) THEN Len(s) - Len(TrimEnd(s)) - 1 ELSE 0

\* the catalog without the messages that carry no usable translation
WithoutEmpty(cat) == {m \in cat : ~m.plural /\ ~is_empty(m.msgstr)}

\* src is the text of a paragraph of the text unit
IsParagraph(src) ==
    \E i \in 1..Len(extract_paragraphs(text, keepEol)) :
        extract_paragraphs(text, keepEol)[i].paragraph = src

Hello == <<"a">>
World == <<"b">>
Bonjour == <<"B">>
Msg(src, tgt) == [msgid |-> src, msgstr |-> tgt, plural |-> FALSE]

\* C1 -- Line-count invariant: with a catalog that matches no paragraph, the
\* output of translate has exactly as many lines as the input.
C1_LineCount ==
    (pc = "done" /\ NoMatch) => lines_count(output) = lines_count(text)

\* C2 -- Identity on empty catalog: with a catalog that matches no paragraph,
\* translate returns the input unchanged up to trailing newlines, and
\* "a\n\n\nb\n" comes back exactly.
C2_Identity ==
    (pc = "done" /\ NoMatch) =>
        /\ TrimEnd(output) = TrimEnd(text)
        /\ ends_with(output, NL) <=> ends_with(text, NL)
        /\ text = <<"a", NL, NL, NL, "b", NL>> => output = text

\* C3 -- Substitution: the paragraphs are emitted in their original order,
\* each as its non-empty catalog target if there is one and verbatim
\* otherwise; with "Hello"->"Bonjour", "Hello\n" becomes "Bonjour\n" and
\* "Hello\n\nWorld\n" becomes "Bonjour\n\nWorld\n".
C3_Substitution ==
    pc = "done" =>
        LET paras == extract_paragraphs(text, keepEol)
        IN  /\ Len(appended) = Len(paras)
            /\ \A i \in 1..Len(appended) :
                  /\ appended[i].paragraph = paras[i].paragraph
                  /\ appended[i].segment =
                         IF \E m \in WithoutEmpty(catalog) : m.msgid = paras[i].paragraph
                         THEN (CHOOSE m \in catalog : m.msgid = paras[i].paragraph).msgstr
                         ELSE paras[i].paragraph
            /\ (catalog = {Msg(Hello, Bonjour)} /\ IsParagraph(Hello)) =>
                  /\ text = Hello \o <<NL>> => output = Bonjour \o <<NL>>
                  /\ text = Hello \o <<NL, NL>> \o World \o <<NL>>
                         => output = Bonjour \o <<NL, NL>> \o World \o <<NL>>

\* C4 -- Empty-target fallback: a message whose source equals a paragraph
\* and whose target is absent or empty behaves exactly like a lookup miss:
\* the original paragraph is pushed, never an empty string, and the output is
\* the one obtained with that message removed; with "Hello"->"" the
\* paragraph "Hello" of "Hello\n" is left as it is and "Hello\n" comes back.
C4_EmptyTargetFallback ==
    /\ \A i \in 1..Len(appended) :
          /\ appended[i].segment # <<>>
          /\ (\E m \in catalog \ WithoutEmpty(catalog) : m.msgid = appended[i].paragraph)
                 => appended[i].segment = appended[i].paragraph
    /\ pc = "done" =>
          /\ output = Translate(text, WithoutEmpty(catalog), keepEol)
          /\ (catalog = {Msg(Hello, <<>>)} /\ text = Hello \o <<NL>> /\ IsParagraph(Hello))
                 => output = text

\* "Hello\n" was translated with "Hello"->"", "Hello" being its paragraph
C4_Witness ==
    /\ pc = "done"
    /\ catalog = {Msg(Hello, <<>>)}
    /\ text = Hello \o <<NL>>
    /\ Len(appended) = 1
    /\ appended[1].paragraph = Hello
    /\ appended[1].segment = Hello

\* C5 -- Trailing newline: for a text unit that ends with a newline, the
\* output ends with exactly one newline.
C5_TrailingNewline ==
    (pc = "done" /\ ends_with(text, NL)) =>
        /\ ends_with(output, NL)
        /\ Len(output) >= 2 => output[Len(output) - 1] # NL

\* C6 -- No trailing newline preserved: for a text unit that does not end
\* with a newline, the output does not end with a newline, whatever the
\* catalog.
C6_NoTrailingNewline ==
    (pc = "done" /\ ~ends_with(text, NL)) => ~ends_with(output, NL)

\* C9 -- Blank-line gaps: the cursor starts at 1, never exceeds the start
\* line of the paragraph about to be appended, and moves past a paragraph by
\* the line count of the original paragraph; the newlines pushed right
\* before a paragraph are as many as the blank input lines before it.
C9_BlankLineGaps ==
    /\ appended = <<>> => current_lineno = 1 + filled
    /\ (pc = "loop" /\ paragraphs # <<>>) => current_lineno <= Head(paragraphs).lineno
    /\ appended # <<>> =>
           current_lineno =
               Last(appended).lineno + lines_count(Last(appended).paragraph) + filled
    /\ \A i \in 1..Len(appended) :
           appended[i].blanks = BlankLinesBefore(text, appended[i].lineno)

\* a translated paragraph whose target has another line count than the
\* paragraph was appended, and after two blank lines the next paragraph
C9_Witness ==
    \E i \in 2..Len(appended) :
        /\ appended[i].blanks = 2
        /\ appended[i - 1].segment # appended[i - 1].paragraph
        /\ lines_count(appended[i - 1].segment) # lines_count(appended[i - 1].paragraph)

\* C10 -- Leading and trailing blank lines: the output begins with as many
\* blank lines as the input has before its first paragraph and ends with as
\* many as the input has after its last one; a blank unit is reproduced.
C10_LeadingTrailingBlank ==
    pc = "done" =>
        /\ LeadingBlank(output) = LeadingBlank(text)
        /\ NoMatch => TrailingBlank(output) = TrailingBlank(text)
        /\ TrimEnd(text) = <<>> => output = text


\* ---- the book (mdbook::book::Book) -------------------------------------------
\* A book is the list of its items in document order; depth is the nesting
\* level of an item (an item one level below the item before it is the first
\* sub-item of that chapter).

BodyTexts == {<<"a", NL>>, <<"a", NL, NL, "b">>}
NameTexts == {<<"a">>, <<"b">>}

Chapter(c, n, d) == [kind |-> "Chapter", content |-> c, name |-> n, depth |-> d]
Separator(d) == [kind |-> "Separator", depth |-> d]
PartTitle(t, d) == [kind |-> "PartTitle", title |-> t, depth |-> d]

BookItems ==
    {Chapter(c, <<"a">>, d) : c \in BodyTexts, d \in 0..(MaxItems - 1)}
        \cup {Separator(d) : d \in 0..(MaxItems - 1)}
        \cup {PartTitle(t, d) : t \in NameTexts, d \in 0..(MaxItems - 1)}

WellNested(b) ==
    \A i \in 1..Len(b) :
        IF i = 1 THEN b[i].depth = 0
        ELSE b[i].depth <= b[i - 1].depth + (IF b[i - 1].kind = "Chapter" THEN 1 ELSE 0)

Books == {b \in SeqsUpTo(BookItems, MaxItems) : WellNested(b)}

\* the catalogs a PO file may hold
PoCatalogs == {c \in Catalogs : \A m \in c : m.msgstr = <<"B">>}

\* ---- translate_book and preprocess ---------------------------------------------

\* the three ok_or_else(...)? of translate_book: the error, "" if none
ConfigError_mut(c) ==
    CASE c = "no_gettext" -> "Could not read preprocessor.gettext configuration"
      [] c = "no_po_file" -> "Missing preprocessor.gettext.po-file config value"
      [] OTHER -> ""

ConfigError(c) ==
    CASE c = "no_gettext" -> "Could not read preprocessor.gettext configuration"
      [] c = "no_po_file" -> "Missing preprocessor.gettext.po-file config value"
      [] c = "po_not_string" -> "Expected a string for preprocessor.gettext.po-file"
      [] OTHER -> ""

\* the closure translate_book passes to for_each_mut
TranslateItem_mut(item, cat, keep) ==
    CASE item.kind = "Chapter" ->
             [item EXCEPT !.content = Translate(item.content, cat, keep)]
      [] item.kind = "Separator" -> item
      [] item.kind = "PartTitle" ->
             [item EXCEPT !.title = Translate(item.title, cat, keep)]

TranslateItem(item, cat, keep) ==
    CASE item.kind = "Chapter" ->
             [item EXCEPT !.content = Translate(item.content, cat, keep),
                          !.name = Translate(item.name, cat, keep)]
      [] item.kind = "Separator" -> item
      [] item.kind = "PartTitle" ->
             [item EXCEPT !.title = Translate(item.title, cat, keep)]

TranslateIdle ==
    /\ text = <<>> /\ catalog = {} /\ paragraphs = <<>> /\ output = <<>>
    /\ current_lineno = 1 /\ filled = 0 /\ appended = <<>> /\ pc = "done"

BookInit ==
    /\ stdinOk \in BOOLEAN
    /\ version \in {"unparseable", "mismatch", "match"}
    /\ cfg \in {"no_gettext", "no_po_file", "po_not_string", "po_unparseable", "ok"}
    /\ poCatalog \in PoCatalogs
    /\ keepEol \in BOOLEAN
    /\ book0 \in Books
    /\ book = book0
    /\ loaded = {}
    /\ visited = {}
    /\ warned = FALSE
    /\ stdout = <<>>
    /\ error = ""
    /\ bpc = "start"
    /\ TranslateIdle

\* CmdPreprocessor::parse_input(io::stdin())?, Version::parse(..)?, the warning
ParseInput ==
    /\ bpc = "start"
    /\ IF ~stdinOk THEN
           /\ bpc' = "err" /\ error' = "parse_input" /\ UNCHANGED warned
       ELSE IF version = "unparseable" THEN
           /\ bpc' = "err" /\ error' = "Version::parse" /\ UNCHANGED warned
       ELSE
           /\ bpc' = "config" /\ warned' = (version = "mismatch") /\ UNCHANGED error
    /\ UNCHANGED <<stdinOk, version, cfg, poCatalog, loaded, book0, book, visited, stdout>>
    /\ UNCHANGED tvars

\* translate_book: get_preprocessor("gettext"), get("po-file"), as_str()
GetConfig ==
    /\ bpc = "config"
    /\ IF ConfigError(cfg) # "" THEN
           /\ bpc' = "err" /\ error' = ConfigError(cfg)
       ELSE
           /\ bpc' = "po" /\ UNCHANGED error
    /\ UNCHANGED <<stdinOk, version, cfg, poCatalog, loaded, book0, book, visited, warned, stdout>>
    /\ UNCHANGED tvars

\* translate_book: po_file::parse(Path::new(path))...?
ParsePoFile ==
    /\ bpc = "po"
    /\ IF cfg = "po_unparseable" THEN
           /\ bpc' = "err" /\ error' = "Could not parse path as PO file"
           /\ UNCHANGED loaded
       ELSE
           /\ bpc' = "items" /\ loaded' = poCatalog /\ UNCHANGED error
    /\ UNCHANGED <<stdinOk, version, cfg, poCatalog, book0, book, visited, warned, stdout>>
    /\ UNCHANGED tvars

\* book.for_each_mut(|item| ...): the closure runs on one more item.  The
\* traversal order is the library's; every order is admitted.
ForEachMut ==
    /\ bpc = "items"
    /\ \E i \in (1..Len(book)) \ visited :
           /\ book' = [book EXCEPT ![i] = TranslateItem(book[i], loaded, keepEol)]
           /\ visited' = visited \cup {i}
    /\ UNCHANGED <<stdinOk, version, cfg, poCatalog, loaded, book0, warned, stdout, error, bpc>>
    /\ UNCHANGED tvars

\* Ok(book), then serde_json::to_writer(io::stdout(), &translated_book)
WriteOutput ==
    /\ bpc = "items"
    /\ visited = 1..Len(book)
    /\ stdout' = Append(stdout, book)
    /\ bpc' = "done"
    /\ UNCHANGED <<stdinOk, version, cfg, poCatalog, loaded, book0, book, visited, warned, error>>
    /\ UNCHANGED tvars

BookNext == ParseInput \/ GetConfig \/ ParsePoFile \/ ForEachMut \/ WriteOutput

SpecBook == BookInit /\ [][BookNext]_vars

\* C7 -- translate_book replaces the body and the name of every chapter and
\* the title of every part title by translate of the old value, once each and
\* with the one catalog; separators stay as they are; the number, the order
\* and the nesting of the items do not change.
C7_TranslateBook ==
    bpc \in {"items", "done"} =>
        /\ loaded = poCatalog
        /\ Len(book) = Len(book0)
        /\ \A i \in 1..Len(book) :
              /\ book[i].kind = book0[i].kind
              /\ book[i].depth = book0[i].depth
              /\ i \notin visited => book[i] = book0[i]
              /\ (i \in visited /\ book0[i].kind = "Chapter") =>
                     /\ book[i].content = Translate(book0[i].content, poCatalog, keepEol)
                     /\ book[i].name = Translate(book0[i].name, poCatalog, keepEol)
              /\ (i \in visited /\ book0[i].kind = "PartTitle") =>
                     book[i].title = Translate(book0[i].title, poCatalog, keepEol)
              /\ book0[i].kind = "Separator" => book[i] = book0[i]
        /\ bpc = "done" => (visited = 1..Len(book) /\ stdout = <<book>>)

\* a book with a chapter and a part title nested in it came out with new texts
C7_Witness ==
    /\ bpc = "done"
    /\ \E i, j \in 1..Len(book) :
          /\ book0[i].kind = "Chapter"
          /\ book[i].content # book0[i].content
          /\ book[i].name # book0[i].name
          /\ book0[j].kind = "PartTitle" /\ book0[j].depth = 1
          /\ book[j].title # book0[j].title

====
